---- MODULE Spec2Model ----
(***************************************************************************)
(* A model of GTE/clean.py: the build-artifact cleaner of GeometricTools.   *)
(*                                                                         *)
(* A name is a sequence of characters, each its Unicode code point (46 is  *)
(* '.', <<105,112,99,104>> is 'ipch'); a path is the sequence of names      *)
(* below the working directory (<<>> is os.getcwd()), and the filesystem   *)
(* is the pair of sets dirs / files of paths.  The tree holds ordinary,    *)
(* readable directories and files only (no symbolic links), and nothing    *)
(* but the program changes it while the program runs.                      *)
(***************************************************************************)
EXTENDS Naturals, Sequences, FiniteSets

\* ------------------------------------------------------------ bounds
\* The largest number of entries (files and directories) below the working
\* directory in an initial tree.
MaxNodes == 3
\* The same for the specification with fairness, FairSpec.
MaxRetryNodes == 2

\* ------------------------------------------------------------ strings
\* A character is its Unicode code point.  The tables are those of the
\* interpreter's str.lower (CPython 3.11, Unicode 14.0.0).

\* The characters str.lower changes to one other character, as runs
\* <<first, last, step, image of first>>: the characters first, first+step,
\* ..., last map to consecutive images.
LowerRuns ==
    <<
       <<65,90,1,97>>, <<192,214,1,224>>, <<216,222,1,248>>, <<256,302,2,257>>,
       <<306,310,2,307>>, <<313,327,2,314>>, <<330,374,2,331>>, <<376,376,1,255>>,
       <<377,381,2,378>>, <<385,385,1,595>>, <<386,388,2,387>>, <<390,390,1,596>>,
       <<391,391,1,392>>, <<393,394,1,598>>, <<395,395,1,396>>, <<398,398,1,477>>,
       <<399,399,1,601>>, <<400,400,1,603>>, <<401,401,1,402>>, <<403,403,1,608>>,
       <<404,404,1,611>>, <<406,406,1,617>>, <<407,407,1,616>>, <<408,408,1,409>>,
       <<412,412,1,623>>, <<413,413,1,626>>, <<415,415,1,629>>, <<416,420,2,417>>,
       <<422,422,1,640>>, <<423,423,1,424>>, <<425,425,1,643>>, <<428,428,1,429>>,
       <<430,430,1,648>>, <<431,431,1,432>>, <<433,434,1,650>>, <<435,437,2,436>>,
       <<439,439,1,658>>, <<440,440,1,441>>, <<444,444,1,445>>, <<452,452,1,454>>,
       <<453,453,1,454>>, <<455,455,1,457>>, <<456,456,1,457>>, <<458,458,1,460>>,
       <<459,475,2,460>>, <<478,494,2,479>>, <<497,497,1,499>>, <<498,500,2,499>>,
       <<502,502,1,405>>, <<503,503,1,447>>, <<504,542,2,505>>, <<544,544,1,414>>,
       <<546,562,2,547>>, <<570,570,1,11365>>, <<571,571,1,572>>, <<573,573,1,410>>,
       <<574,574,1,11366>>, <<577,577,1,578>>, <<579,579,1,384>>, <<580,580,1,649>>,
       <<581,581,1,652>>, <<582,590,2,583>>, <<880,882,2,881>>, <<886,886,1,887>>,
       <<895,895,1,1011>>, <<902,902,1,940>>, <<904,906,1,941>>, <<908,908,1,972>>,
       <<910,911,1,973>>, <<913,929,1,945>>, <<931,939,1,963>>, <<975,975,1,983>>,
       <<984,1006,2,985>>, <<1012,1012,1,952>>, <<1015,1015,1,1016>>, <<1017,1017,1,1010>>,
       <<1018,1018,1,1019>>, <<1021,1023,1,891>>, <<1024,1039,1,1104>>, <<1040,1071,1,1072>>,
       <<1120,1152,2,1121>>, <<1162,1214,2,1163>>, <<1216,1216,1,1231>>, <<1217,1229,2,1218>>,
       <<1232,1326,2,1233>>, <<1329,1366,1,1377>>, <<4256,4293,1,11520>>, <<4295,4295,1,11559>>,
       <<4301,4301,1,11565>>, <<5024,5103,1,43888>>, <<5104,5109,1,5112>>, <<7312,7354,1,4304>>,
       <<7357,7359,1,4349>>, <<7680,7828,2,7681>>, <<7838,7838,1,223>>, <<7840,7934,2,7841>>,
       <<7944,7951,1,7936>>, <<7960,7965,1,7952>>, <<7976,7983,1,7968>>, <<7992,7999,1,7984>>,
       <<8008,8013,1,8000>>, <<8025,8031,2,8017>>, <<8040,8047,1,8032>>, <<8072,8079,1,8064>>,
       <<8088,8095,1,8080>>, <<8104,8111,1,8096>>, <<8120,8121,1,8112>>, <<8122,8123,1,8048>>,
       <<8124,8124,1,8115>>, <<8136,8139,1,8050>>, <<8140,8140,1,8131>>, <<8152,8153,1,8144>>,
       <<8154,8155,1,8054>>, <<8168,8169,1,8160>>, <<8170,8171,1,8058>>, <<8172,8172,1,8165>>,
       <<8184,8185,1,8056>>, <<8186,8187,1,8060>>, <<8188,8188,1,8179>>, <<8486,8486,1,969>>,
       <<8490,8490,1,107>>, <<8491,8491,1,229>>, <<8498,8498,1,8526>>, <<8544,8559,1,8560>>,
       <<8579,8579,1,8580>>, <<9398,9423,1,9424>>, <<11264,11311,1,11312>>, <<11360,11360,1,11361>>,
       <<11362,11362,1,619>>, <<11363,11363,1,7549>>, <<11364,11364,1,637>>, <<11367,11371,2,11368>>,
       <<11373,11373,1,593>>, <<11374,11374,1,625>>, <<11375,11375,1,592>>, <<11376,11376,1,594>>,
       <<11378,11378,1,11379>>, <<11381,11381,1,11382>>, <<11390,11391,1,575>>, <<11392,11490,2,11393>>,
       <<11499,11501,2,11500>>, <<11506,11506,1,11507>>, <<42560,42604,2,42561>>, <<42624,42650,2,42625>>,
       <<42786,42798,2,42787>>, <<42802,42862,2,42803>>, <<42873,42875,2,42874>>, <<42877,42877,1,7545>>,
       <<42878,42886,2,42879>>, <<42891,42891,1,42892>>, <<42893,42893,1,613>>, <<42896,42898,2,42897>>,
       <<42902,42920,2,42903>>, <<42922,42922,1,614>>, <<42923,42923,1,604>>, <<42924,42924,1,609>>,
       <<42925,42925,1,620>>, <<42926,42926,1,618>>, <<42928,42928,1,670>>, <<42929,42929,1,647>>,
       <<42930,42930,1,669>>, <<42931,42931,1,43859>>, <<42932,42946,2,42933>>, <<42948,42948,1,42900>>,
       <<42949,42949,1,642>>, <<42950,42950,1,7566>>, <<42951,42953,2,42952>>, <<42960,42960,1,42961>>,
       <<42966,42968,2,42967>>, <<42997,42997,1,42998>>, <<65313,65338,1,65345>>, <<66560,66599,1,66600>>,
       <<66736,66771,1,66776>>, <<66928,66938,1,66967>>, <<66940,66954,1,66979>>, <<66956,66962,1,66995>>,
       <<66964,66965,1,67003>>, <<68736,68786,1,68800>>, <<71840,71871,1,71872>>, <<93760,93791,1,93792>>,
       <<125184,125217,1,125218>>
    >>

\* The characters the scan around a capital sigma skips (case-ignorable).
CaseIgnorableRuns ==
    <<
       <<39,39>>, <<46,46>>, <<58,58>>, <<94,94>>, <<96,96>>, <<168,168>>,
       <<173,173>>, <<175,175>>, <<180,180>>, <<183,184>>, <<688,879>>, <<884,885>>,
       <<890,890>>, <<900,901>>, <<903,903>>, <<1155,1161>>, <<1369,1369>>, <<1375,1375>>,
       <<1425,1469>>, <<1471,1471>>, <<1473,1474>>, <<1476,1477>>, <<1479,1479>>, <<1524,1524>>,
       <<1536,1541>>, <<1552,1562>>, <<1564,1564>>, <<1600,1600>>, <<1611,1631>>, <<1648,1648>>,
       <<1750,1757>>, <<1759,1768>>, <<1770,1773>>, <<1807,1807>>, <<1809,1809>>, <<1840,1866>>,
       <<1958,1968>>, <<2027,2037>>, <<2042,2042>>, <<2045,2045>>, <<2070,2093>>, <<2137,2139>>,
       <<2184,2184>>, <<2192,2193>>, <<2200,2207>>, <<2249,2306>>, <<2362,2362>>, <<2364,2364>>,
       <<2369,2376>>, <<2381,2381>>, <<2385,2391>>, <<2402,2403>>, <<2417,2417>>, <<2433,2433>>,
       <<2492,2492>>, <<2497,2500>>, <<2509,2509>>, <<2530,2531>>, <<2558,2558>>, <<2561,2562>>,
       <<2620,2620>>, <<2625,2626>>, <<2631,2632>>, <<2635,2637>>, <<2641,2641>>, <<2672,2673>>,
       <<2677,2677>>, <<2689,2690>>, <<2748,2748>>, <<2753,2757>>, <<2759,2760>>, <<2765,2765>>,
       <<2786,2787>>, <<2810,2815>>, <<2817,2817>>, <<2876,2876>>, <<2879,2879>>, <<2881,2884>>,
       <<2893,2893>>, <<2901,2902>>, <<2914,2915>>, <<2946,2946>>, <<3008,3008>>, <<3021,3021>>,
       <<3072,3072>>, <<3076,3076>>, <<3132,3132>>, <<3134,3136>>, <<3142,3144>>, <<3146,3149>>,
       <<3157,3158>>, <<3170,3171>>, <<3201,3201>>, <<3260,3260>>, <<3263,3263>>, <<3270,3270>>,
       <<3276,3277>>, <<3298,3299>>, <<3328,3329>>, <<3387,3388>>, <<3393,3396>>, <<3405,3405>>,
       <<3426,3427>>, <<3457,3457>>, <<3530,3530>>, <<3538,3540>>, <<3542,3542>>, <<3633,3633>>,
       <<3636,3642>>, <<3654,3662>>, <<3761,3761>>, <<3764,3772>>, <<3782,3782>>, <<3784,3789>>,
       <<3864,3865>>, <<3893,3893>>, <<3895,3895>>, <<3897,3897>>, <<3953,3966>>, <<3968,3972>>,
       <<3974,3975>>, <<3981,3991>>, <<3993,4028>>, <<4038,4038>>, <<4141,4144>>, <<4146,4151>>,
       <<4153,4154>>, <<4157,4158>>, <<4184,4185>>, <<4190,4192>>, <<4209,4212>>, <<4226,4226>>,
       <<4229,4230>>, <<4237,4237>>, <<4253,4253>>, <<4348,4348>>, <<4957,4959>>, <<5906,5908>>,
       <<5938,5939>>, <<5970,5971>>, <<6002,6003>>, <<6068,6069>>, <<6071,6077>>, <<6086,6086>>,
       <<6089,6099>>, <<6103,6103>>, <<6109,6109>>, <<6155,6159>>, <<6211,6211>>, <<6277,6278>>,
       <<6313,6313>>, <<6432,6434>>, <<6439,6440>>, <<6450,6450>>, <<6457,6459>>, <<6679,6680>>,
       <<6683,6683>>, <<6742,6742>>, <<6744,6750>>, <<6752,6752>>, <<6754,6754>>, <<6757,6764>>,
       <<6771,6780>>, <<6783,6783>>, <<6823,6823>>, <<6832,6862>>, <<6912,6915>>, <<6964,6964>>,
       <<6966,6970>>, <<6972,6972>>, <<6978,6978>>, <<7019,7027>>, <<7040,7041>>, <<7074,7077>>,
       <<7080,7081>>, <<7083,7085>>, <<7142,7142>>, <<7144,7145>>, <<7149,7149>>, <<7151,7153>>,
       <<7212,7219>>, <<7222,7223>>, <<7288,7293>>, <<7376,7378>>, <<7380,7392>>, <<7394,7400>>,
       <<7405,7405>>, <<7412,7412>>, <<7416,7417>>, <<7468,7530>>, <<7544,7544>>, <<7579,7679>>,
       <<8125,8125>>, <<8127,8129>>, <<8141,8143>>, <<8157,8159>>, <<8173,8175>>, <<8189,8190>>,
       <<8203,8207>>, <<8216,8217>>, <<8228,8228>>, <<8231,8231>>, <<8234,8238>>, <<8288,8292>>,
       <<8294,8303>>, <<8305,8305>>, <<8319,8319>>, <<8336,8348>>, <<8400,8432>>, <<11388,11389>>,
       <<11503,11505>>, <<11631,11631>>, <<11647,11647>>, <<11744,11775>>, <<11823,11823>>, <<12293,12293>>,
       <<12330,12333>>, <<12337,12341>>, <<12347,12347>>, <<12441,12446>>, <<12540,12542>>, <<40981,40981>>,
       <<42232,42237>>, <<42508,42508>>, <<42607,42610>>, <<42612,42621>>, <<42623,42623>>, <<42652,42655>>,
       <<42736,42737>>, <<42752,42785>>, <<42864,42864>>, <<42888,42890>>, <<42994,42996>>, <<43000,43001>>,
       <<43010,43010>>, <<43014,43014>>, <<43019,43019>>, <<43045,43046>>, <<43052,43052>>, <<43204,43205>>,
       <<43232,43249>>, <<43263,43263>>, <<43302,43309>>, <<43335,43345>>, <<43392,43394>>, <<43443,43443>>,
       <<43446,43449>>, <<43452,43453>>, <<43471,43471>>, <<43493,43494>>, <<43561,43566>>, <<43569,43570>>,
       <<43573,43574>>, <<43587,43587>>, <<43596,43596>>, <<43632,43632>>, <<43644,43644>>, <<43696,43696>>,
       <<43698,43700>>, <<43703,43704>>, <<43710,43711>>, <<43713,43713>>, <<43741,43741>>, <<43756,43757>>,
       <<43763,43764>>, <<43766,43766>>, <<43867,43871>>, <<43881,43883>>, <<44005,44005>>, <<44008,44008>>,
       <<44013,44013>>, <<64286,64286>>, <<64434,64450>>, <<65024,65039>>, <<65043,65043>>, <<65056,65071>>,
       <<65106,65106>>, <<65109,65109>>, <<65279,65279>>, <<65287,65287>>, <<65294,65294>>, <<65306,65306>>,
       <<65342,65342>>, <<65344,65344>>, <<65392,65392>>, <<65438,65439>>, <<65507,65507>>, <<65529,65531>>,
       <<66045,66045>>, <<66272,66272>>, <<66422,66426>>, <<67456,67461>>, <<67463,67504>>, <<67506,67514>>,
       <<68097,68099>>, <<68101,68102>>, <<68108,68111>>, <<68152,68154>>, <<68159,68159>>, <<68325,68326>>,
       <<68900,68903>>, <<69291,69292>>, <<69446,69456>>, <<69506,69509>>, <<69633,69633>>, <<69688,69702>>,
       <<69744,69744>>, <<69747,69748>>, <<69759,69761>>, <<69811,69814>>, <<69817,69818>>, <<69821,69821>>,
       <<69826,69826>>, <<69837,69837>>, <<69888,69890>>, <<69927,69931>>, <<69933,69940>>, <<70003,70003>>,
       <<70016,70017>>, <<70070,70078>>, <<70089,70092>>, <<70095,70095>>, <<70191,70193>>, <<70196,70196>>,
       <<70198,70199>>, <<70206,70206>>, <<70367,70367>>, <<70371,70378>>, <<70400,70401>>, <<70459,70460>>,
       <<70464,70464>>, <<70502,70508>>, <<70512,70516>>, <<70712,70719>>, <<70722,70724>>, <<70726,70726>>,
       <<70750,70750>>, <<70835,70840>>, <<70842,70842>>, <<70847,70848>>, <<70850,70851>>, <<71090,71093>>,
       <<71100,71101>>, <<71103,71104>>, <<71132,71133>>, <<71219,71226>>, <<71229,71229>>, <<71231,71232>>,
       <<71339,71339>>, <<71341,71341>>, <<71344,71349>>, <<71351,71351>>, <<71453,71455>>, <<71458,71461>>,
       <<71463,71467>>, <<71727,71735>>, <<71737,71738>>, <<71995,71996>>, <<71998,71998>>, <<72003,72003>>,
       <<72148,72151>>, <<72154,72155>>, <<72160,72160>>, <<72193,72202>>, <<72243,72248>>, <<72251,72254>>,
       <<72263,72263>>, <<72273,72278>>, <<72281,72283>>, <<72330,72342>>, <<72344,72345>>, <<72752,72758>>,
       <<72760,72765>>, <<72767,72767>>, <<72850,72871>>, <<72874,72880>>, <<72882,72883>>, <<72885,72886>>,
       <<73009,73014>>, <<73018,73018>>, <<73020,73021>>, <<73023,73029>>, <<73031,73031>>, <<73104,73105>>,
       <<73109,73109>>, <<73111,73111>>, <<73459,73460>>, <<78896,78904>>, <<92912,92916>>, <<92976,92982>>,
       <<92992,92995>>, <<94031,94031>>, <<94095,94111>>, <<94176,94177>>, <<94179,94180>>, <<110576,110579>>,
       <<110581,110587>>, <<110589,110590>>, <<113821,113822>>, <<113824,113827>>, <<118528,118573>>, <<118576,118598>>,
       <<119143,119145>>, <<119155,119170>>, <<119173,119179>>, <<119210,119213>>, <<119362,119364>>, <<121344,121398>>,
       <<121403,121452>>, <<121461,121461>>, <<121476,121476>>, <<121499,121503>>, <<121505,121519>>, <<122880,122886>>,
       <<122888,122904>>, <<122907,122913>>, <<122915,122916>>, <<122918,122922>>, <<123184,123197>>, <<123566,123566>>,
       <<123628,123631>>, <<125136,125142>>, <<125252,125259>>, <<127995,127999>>, <<917505,917505>>, <<917536,917631>>,
       <<917760,917999>>
    >>

\* The cased characters among those the scan does not skip.
CasedRuns ==
    <<
       <<65,90>>, <<97,122>>, <<170,170>>, <<181,181>>, <<186,186>>, <<192,214>>,
       <<216,246>>, <<248,442>>, <<444,447>>, <<452,659>>, <<661,687>>, <<880,883>>,
       <<886,887>>, <<891,893>>, <<895,895>>, <<902,902>>, <<904,906>>, <<908,908>>,
       <<910,929>>, <<931,1013>>, <<1015,1153>>, <<1162,1327>>, <<1329,1366>>, <<1376,1416>>,
       <<4256,4293>>, <<4295,4295>>, <<4301,4301>>, <<4304,4346>>, <<4349,4351>>, <<5024,5109>>,
       <<5112,5117>>, <<7296,7304>>, <<7312,7354>>, <<7357,7359>>, <<7424,7467>>, <<7531,7543>>,
       <<7545,7578>>, <<7680,7957>>, <<7960,7965>>, <<7968,8005>>, <<8008,8013>>, <<8016,8023>>,
       <<8025,8025>>, <<8027,8027>>, <<8029,8029>>, <<8031,8061>>, <<8064,8116>>, <<8118,8124>>,
       <<8126,8126>>, <<8130,8132>>, <<8134,8140>>, <<8144,8147>>, <<8150,8155>>, <<8160,8172>>,
       <<8178,8180>>, <<8182,8188>>, <<8450,8450>>, <<8455,8455>>, <<8458,8467>>, <<8469,8469>>,
       <<8473,8477>>, <<8484,8484>>, <<8486,8486>>, <<8488,8488>>, <<8490,8493>>, <<8495,8500>>,
       <<8505,8505>>, <<8508,8511>>, <<8517,8521>>, <<8526,8526>>, <<8544,8575>>, <<8579,8580>>,
       <<9398,9449>>, <<11264,11387>>, <<11390,11492>>, <<11499,11502>>, <<11506,11507>>, <<11520,11557>>,
       <<11559,11559>>, <<11565,11565>>, <<42560,42605>>, <<42624,42651>>, <<42786,42863>>, <<42865,42887>>,
       <<42891,42894>>, <<42896,42954>>, <<42960,42961>>, <<42963,42963>>, <<42965,42969>>, <<42997,42998>>,
       <<43002,43002>>, <<43824,43866>>, <<43872,43880>>, <<43888,43967>>, <<64256,64262>>, <<64275,64279>>,
       <<65313,65338>>, <<65345,65370>>, <<66560,66639>>, <<66736,66771>>, <<66776,66811>>, <<66928,66938>>,
       <<66940,66954>>, <<66956,66962>>, <<66964,66965>>, <<66967,66977>>, <<66979,66993>>, <<66995,67001>>,
       <<67003,67004>>, <<68736,68786>>, <<68800,68850>>, <<71840,71903>>, <<93760,93823>>, <<119808,119892>>,
       <<119894,119964>>, <<119966,119967>>, <<119970,119970>>, <<119973,119974>>, <<119977,119980>>, <<119982,119993>>,
       <<119995,119995>>, <<119997,120003>>, <<120005,120069>>, <<120071,120074>>, <<120077,120084>>, <<120086,120092>>,
       <<120094,120121>>, <<120123,120126>>, <<120128,120132>>, <<120134,120134>>, <<120138,120144>>, <<120146,120485>>,
       <<120488,120512>>, <<120514,120538>>, <<120540,120570>>, <<120572,120596>>, <<120598,120628>>, <<120630,120654>>,
       <<120656,120686>>, <<120688,120712>>, <<120714,120744>>, <<120746,120770>>, <<120772,120779>>, <<122624,122633>>,
       <<122635,122654>>, <<125184,125251>>, <<127280,127305>>, <<127312,127337>>, <<127344,127369>>
    >>

InRuns(c, R) == \E k \in 1..Len(R) : R[k][1] <= c /\ c <= R[k][2]

\* str.lower() on one character that is not a capital sigma: a sequence,
\* since U+0130 lowercases to the two characters U+0069 U+0307.
LowerChar(c) ==
    IF c < 128
    THEN (IF 65 <= c /\ c <= 90 THEN <<c + 32>> ELSE <<c>>)
    ELSE IF c = 304 THEN <<105, 775>>
    ELSE IF \E k \in 1..Len(LowerRuns) :
               /\ LowerRuns[k][1] <= c /\ c <= LowerRuns[k][2]
               /\ (c - LowerRuns[k][1]) % LowerRuns[k][3] = 0
    THEN LET k == CHOOSE k \in 1..Len(LowerRuns) :
                    /\ LowerRuns[k][1] <= c /\ c <= LowerRuns[k][2]
                    /\ (c - LowerRuns[k][1]) % LowerRuns[k][3] = 0
         IN  <<LowerRuns[k][4] + (c - LowerRuns[k][1])>>
    ELSE <<c>>

\* Whether the capital sigma at position k of s is final: the nearest
\* character before it that is not case-ignorable is cased, and the nearest
\* one after it, if any, is not.
FinalSigma(s, k) ==
    LET before == { j \in 1..(k-1) : ~InRuns(s[j], CaseIgnorableRuns) }
        after  == { j \in (k+1)..Len(s) : ~InRuns(s[j], CaseIgnorableRuns) }
        last   == CHOOSE j \in before : \A h \in before : h <= j
        first  == CHOOSE j \in after : \A h \in after : j <= h
    IN  /\ before # {}
        /\ InRuns(s[last], CasedRuns)
        /\ (after = {} \/ ~InRuns(s[first], CasedRuns))

\* What str.lower() puts for position k of s: U+03A3 becomes U+03C2 when
\* final and U+03C3 otherwise.
LowerAt(s, k) ==
    IF s[k] = 931
    THEN (IF FinalSigma(s, k) THEN <<962>> ELSE <<963>>)
    ELSE LowerChar(s[k])

\* str.lower()
lower(s) ==
    LET F[k \in 0..Len(s)] == IF k = 0 THEN <<>> ELSE F[k-1] \o LowerAt(s, k)
    IN  F[Len(s)]

\* str.rfind(c), 1-based; 0 when c does not occur (Python's -1).
rfind(s, c) ==
    IF \E k \in 1..Len(s) : s[k] = c
    THEN CHOOSE k \in 1..Len(s) : s[k] = c /\ \A j \in (k+1)..Len(s) : s[j] # c
    ELSE 0

\* os.path.splitext(fn) as <<base, ext>>, for a name os.walk lists (on
\* Windows '\' is a separator as well, and no name holds one): the extension
\* starts at the last dot, unless only dots precede that dot in the file
\* name (leading dots are part of the base).
splitext(fn) ==
    LET sepIndex == rfind(fn, 47)   \* '/'
        dotIndex == rfind(fn, 46)   \* '.'
    IN  IF /\ dotIndex > sepIndex
           /\ \E k \in (sepIndex+1)..(dotIndex-1) : fn[k] # 46
        THEN <<SubSeq(fn, 1, dotIndex-1), SubSeq(fn, dotIndex, Len(fn))>>
        ELSE <<fn, <<>> >>

\* x in L, for a Python list L.
InList(x, L) == \E k \in 1..Len(L) : L[k] = x

\* os.path.join(dirpath, name)
join(dirpath, name) == Append(dirpath, name)

\* ------------------------------------------------------------ target sets
\* ".ipch", ".pch", ".sdf", ".vspx", ".aps", ".vsp", ".psess" (line 5)
BaseExtensions ==
    << <<46,105,112,99,104>>, <<46,112,99,104>>, <<46,115,100,102>>,
       <<46,118,115,112,120>>, <<46,97,112,115>>, <<46,118,115,112>>,
       <<46,112,115,101,115,115>> >>
\* ".suo", ".user" (line 8)
AllExtensions == << <<46,115,117,111>>, <<46,117,115,101,114>> >>
\* "_output", "ipch" (line 6)
BaseDirectories == << <<95,111,117,116,112,117,116>>, <<105,112,99,104>> >>
\* '.vs' (lines 9, 36)
DotVs == <<46,118,115>>

\* Mutant: the extended extensions are added whatever the command line.
extensions_Always(all) == BaseExtensions \o AllExtensions

\* Mutant: "--all" replaces the list instead of extending it.
extensions_Replaced(all) == IF all THEN AllExtensions ELSE BaseExtensions

\* The list `extensions` once lines 5-9 have run; all is ("--all" in sys.argv).
extensions(all) == IF all THEN BaseExtensions \o AllExtensions ELSE BaseExtensions

\* Mutant: line 9 is missing, '.vs' is never in the list.
directories_NoVs(all) == BaseDirectories

\* The list `directories` once lines 5-9 have run.
directories(all) == IF all THEN Append(BaseDirectories, DotVs) ELSE BaseDirectories

\* Mutant: the name is compared as written, not lowercased.
DirMatches_CaseSensitive(dn, all) == InList(dn, directories(all))

\* The test of line 22 on a directory name.
DirMatches(dn, all) == InList(lower(dn), directories(all))

\* Mutant: every file without extension matches.
FileMatches_AnyNoExt(fn, all) ==
    \/ InList(lower(splitext(fn)[2]), extensions(all))
    \/ splitext(fn)[2] = <<>>

\* The test of line 29 on a file name.
FileMatches(fn, all) ==
    LET base == splitext(fn)[1]
        ext  == splitext(fn)[2]
    IN  \/ InList(lower(ext), extensions(all))
        \/ (ext = <<>> /\ InList(base, extensions(all)))

\* The test of line 36 on a directory name.
IsDotVs(dn) == dn = DotVs

\* ------------------------------------------------------------ filesystem
\* The names the initial trees are drawn from: directories '_output',
\* 'Ipch', '.vs' and 'x.sdf' (a directory with a target extension); files
\* 'a.PCH', '.pch', '.PCH', 'b.suo' and 'c.txt'.
DirNames ==
    { <<95,111,117,116,112,117,116>>, <<73,112,99,104>>, <<46,118,115>>,
      <<120,46,115,100,102>> }
FileNames ==
    { <<97,46,80,67,72>>, <<46,112,99,104>>, <<46,80,67,72>>,
      <<98,46,115,117,111>>, <<99,46,116,120,116>> }

Root == <<>>

IsPrefix(p, q) == Len(p) <= Len(q) /\ SubSeq(q, 1, Len(p)) = p
IsProperPrefix(p, q) == Len(p) < Len(q) /\ SubSeq(q, 1, Len(p)) = p
Parent(p) == SubSeq(p, 1, Len(p) - 1)
Basename(p) == p[Len(p)]

\* Every tree obtained from a tree of T by adding one entry to one of its
\* directories.
AddLeaf(T) ==
    UNION { { [d |-> t.d \cup {join(par, n)}, f |-> t.f] :
                par \in t.d, n \in DirNames }
            \cup
            { [d |-> t.d, f |-> t.f \cup {join(par, n)}] :
                par \in t.d, n \in FileNames } : t \in T }

WellFormed(t) ==
    /\ Root \in t.d
    /\ t.d \cap t.f = {}
    /\ \A p \in (t.d \cup t.f) \ {Root} : Parent(p) \in t.d

RECURSIVE TreesUpTo(_)
TreesUpTo(n) ==
    IF n = 0 THEN { [d |-> {Root}, f |-> {}] }
    ELSE LET prev == TreesUpTo(n - 1)
         IN  prev \cup { t \in AddLeaf(prev) : WellFormed(t) }

\* The entries of the tree at or below p.
Subtree(p, ds, fs) == { q \in ds \cup fs : IsPrefix(p, q) }

\* The enumerations of a finite set: os.scandir lists a directory in an
\* order the platform chooses.
Perms(S) ==
    { s \in [1..Cardinality(S) -> S] :
        \A a, b \in 1..Cardinality(S) : a # b => s[a] # s[b] }

\* The sets of entries a failed shutil.rmtree(p) may have removed before it
\* raised: entries strictly below p, a directory only with all below it.
PartialRemovals(p, ds, fs) ==
    { R \in SUBSET (Subtree(p, ds, fs) \ {p}) :
        \A q \in R : Subtree(q, ds, fs) \subseteq R }

\* ------------------------------------------------------------ exceptions
Platforms == {"win32", "posix"}
\* OSError and its subclasses; on Windows WindowsError is that class.
OSErrorClass == {"OSError", "PermissionError"}
RmtreeErrors == {"OSError", "PermissionError", "RecursionError"}
UnlinkErrors == {"OSError", "PermissionError"}

\* Mutant: a bare except clause, which handles everything everywhere.
CatchesWindowsError_Bare(e, plat) == TRUE

\* Whether `except WindowsError` (line 16) handles e: the name is bound to
\* OSError on Windows; elsewhere it is not defined, evaluating the clause
\* raises NameError and nothing is handled.
CatchesWindowsError(e, plat) == plat = "win32" /\ e \in OSErrorClass

\* ------------------------------------------------------------ sessions
\* The command lines run one after the other: all is "--all"; restore says
\* the tree is put back to the initial tree before the invocation.
Default == [all |-> FALSE, restore |-> FALSE]
All == [all |-> TRUE, restore |-> FALSE]
AllOnInitial == [all |-> TRUE, restore |-> TRUE]
Sessions == { <<Default, Default>>, <<All, All>>, <<Default, All, AllOnInitial>> }

\* ------------------------------------------------------------ state
VARIABLES
    dirs, files,        \* the filesystem: the directories and the files
    initial,            \* the tree before the first invocation
    platform,           \* sys.platform of the interpreter
    argv,               \* the running (or last) invocation
    start,              \* the tree when the running invocation began
    log,                \* the invocations that ended normally, in order
    pc,                 \* where the program is
    phase,              \* 1: the walk of line 19, 2: the walk of line 26
    stack,              \* os.walk: the directories still to be listed
    dirpath, dirnames, filenames,  \* the triple os.walk yielded last
    i,                  \* the position of the running for loop in its list
    target,             \* p, once printed, until its deletion returns
    ret,                \* where robust_rmtree was called from
    printed,            \* standard output of the running invocation
    attempted,          \* the paths whose deletion has been attempted
    raised              \* what the last deletion call raised, or "none"

vars == <<dirs, files, initial, platform, argv, start, log, pc, phase, stack,
          dirpath, dirnames, filenames, i, target, ret, printed, attempted,
          raised>>

fsVars == <<dirs, files>>
frameVars == <<dirpath, dirnames, filenames>>

Tree == [d |-> dirs, f |-> files]

\* The names of the directories / files that are entries of directory top.
ChildDirs(top) == { Basename(q) : q \in { r \in dirs : r # Root /\ Parent(r) = top } }
ChildFiles(top) == { Basename(q) : q \in { r \in files : Parent(r) = top } }

\* The invocations so far.
History == [k \in 1..Len(log) |-> log[k].argv]

\* The state before the first invocation, on a tree of at most n entries.
InitOn(n) ==
    /\ \E t \in TreesUpTo(n) :
         /\ dirs = t.d
         /\ files = t.f
         /\ initial = t
         /\ start = t
    /\ platform \in Platforms
    /\ argv = Default
    /\ log = <<>>
    /\ pc = "idle"
    /\ phase = 1
    /\ stack = <<>>
    /\ dirpath = <<>> /\ dirnames = <<>> /\ filenames = <<>>
    /\ i = 0
    /\ target = <<>>
    /\ ret = "none"
    /\ printed = <<>>
    /\ attempted = {}
    /\ raised = "none"

Init == InitOn(MaxNodes)

\* The shell starts the program: lines 1-9 run and the walk of line 19 is
\* created on os.getcwd().
Invoke(inv) ==
    /\ pc = "idle"
    /\ \E s \in Sessions :
         /\ Len(s) > Len(log)
         /\ SubSeq(s, 1, Len(log)) = History
         /\ s[Len(log) + 1] = inv
    /\ argv' = inv
    /\ dirs' = IF inv.restore THEN initial.d ELSE dirs
    /\ files' = IF inv.restore THEN initial.f ELSE files
    /\ start' = [d |-> dirs', f |-> files']
    /\ pc' = "walk"
    /\ phase' = 1
    /\ stack' = <<Root>>
    /\ printed' = <<>>
    /\ attempted' = {}
    /\ raised' = "none"
    /\ UNCHANGED <<initial, platform, log, frameVars, i, target, ret>>

\* os.walk, asked for its next triple with nothing left to list: the for
\* loop ends.  After the first walk the second one is created (line 26);
\* after the second the program ends.
WalkDone ==
    /\ pc = "walk"
    /\ stack = <<>>
    /\ IF phase = 1
       THEN /\ phase' = 2
            /\ stack' = <<Root>>
            /\ pc' = "walk"
            /\ log' = log
       ELSE /\ phase' = 1
            /\ stack' = <<>>
            /\ pc' = "idle"
            /\ log' = Append(log, [argv |-> argv, from |-> start,
                                   to |-> Tree, out |-> printed])
    /\ UNCHANGED <<fsVars, initial, platform, argv, start, frameVars, i,
                   target, ret, printed, attempted, raised>>

\* os.walk takes the next directory and cannot list it (it was removed):
\* with onerror=None the error is ignored and the directory skipped.
WalkSkip ==
    /\ pc = "walk"
    /\ stack # <<>>
    /\ Head(stack) \notin dirs
    /\ stack' = Tail(stack)
    /\ UNCHANGED <<fsVars, initial, platform, argv, start, log, pc, phase,
                   frameVars, i, target, ret, printed, attempted, raised>>

\* os.walk lists the next directory and yields (dirpath, dirnames, filenames);
\* the body of the for loop starts.
WalkYield ==
    /\ pc = "walk"
    /\ stack # <<>>
    /\ Head(stack) \in dirs
    /\ stack' = Tail(stack)
    /\ dirpath' = Head(stack)
    /\ dirnames' \in Perms(ChildDirs(Head(stack)))
    /\ filenames' \in Perms(ChildFiles(Head(stack)))
    /\ i' = 1
    /\ pc' = IF phase = 1 THEN "dirs1" ELSE "files2"
    /\ UNCHANGED <<fsVars, initial, platform, argv, start, log, phase,
                   target, ret, printed, attempted, raised>>

\* The body has ended and os.walk goes on: it stacks the directories of
\* dirnames, to be listed in that order before what was stacked earlier.
WalkResume ==
    /\ pc = "resume"
    /\ stack' = [k \in 1..Len(dirnames) |-> join(dirpath, dirnames[k])] \o stack
    /\ pc' = "walk"
    /\ dirpath' = <<>> /\ dirnames' = <<>> /\ filenames' = <<>>
    /\ i' = 0
    /\ UNCHANGED <<fsVars, initial, platform, argv, start, log, phase,
                   target, ret, printed, attempted, raised>>

\* Lines 20-24, one iteration: a directory whose lowercased name is in
\* `directories` is printed and handed to robust_rmtree.
Dirs1Iter ==
    /\ pc = "dirs1"
    /\ i <= Len(dirnames)
    /\ IF DirMatches(dirnames[i], argv.all)
       THEN /\ printed' = Append(printed, join(dirpath, dirnames[i]))
            /\ target' = join(dirpath, dirnames[i])
            /\ ret' = "dirs1"
            /\ pc' = "rmtree"
            /\ i' = i
       ELSE /\ i' = i + 1
            /\ UNCHANGED <<printed, target, ret, pc>>
    /\ UNCHANGED <<fsVars, initial, platform, argv, start, log, phase, stack,
                   frameVars, attempted, raised>>

\* Line 20, the list is exhausted: the body of the first walk ends.
Dirs1End ==
    /\ pc = "dirs1"
    /\ i > Len(dirnames)
    /\ pc' = "resume"
    /\ UNCHANGED <<fsVars, initial, platform, argv, start, log, phase, stack,
                   frameVars, i, target, ret, printed, attempted, raised>>

\* Mutant: the directory is emptied but not removed itself.
RmtreeOk_ContentsOnly ==
    /\ pc = "rmtree"
    /\ target \in dirs
    /\ dirs' = dirs \ (Subtree(target, dirs, files) \ {target})
    /\ files' = files \ Subtree(target, dirs, files)
    /\ attempted' = attempted \cup {target}
    /\ raised' = "none"
    /\ pc' = ret
    /\ i' = i + 1
    /\ target' = <<>>
    /\ ret' = "none"
    /\ UNCHANGED <<initial, platform, argv, start, log, phase, stack,
                   frameVars, printed>>

\* robust_rmtree, lines 14-15: shutil.rmtree(p) removes p and all below it;
\* the loop is left and the caller's loop goes on.
RmtreeOk ==
    /\ pc = "rmtree"
    /\ target \in dirs
    /\ dirs' = dirs \ Subtree(target, dirs, files)
    /\ files' = files \ Subtree(target, dirs, files)
    /\ attempted' = attempted \cup {target}
    /\ raised' = "none"
    /\ pc' = ret
    /\ i' = i + 1
    /\ target' = <<>>
    /\ ret' = "none"
    /\ UNCHANGED <<initial, platform, argv, start, log, phase, stack,
                   frameVars, printed>>

\* Mutant: the except clause leaves the loop (break for continue), so that
\* robust_rmtree returns after a failed attempt.
RmtreeRetry_GiveUp ==
    /\ pc = "rmtree"
    /\ \E e \in RmtreeErrors, R \in PartialRemovals(target, dirs, files) :
         /\ CatchesWindowsError(e, platform)
         /\ dirs' = dirs \ R
         /\ files' = files \ R
         /\ raised' = e
    /\ attempted' = attempted \cup {target}
    /\ pc' = ret
    /\ i' = i + 1
    /\ target' = <<>>
    /\ ret' = "none"
    /\ UNCHANGED <<initial, platform, argv, start, log, phase, stack,
                   frameVars, printed>>

\* Mutant: the path is printed inside the loop, once for every attempt.
RmtreeRetry_Prints ==
    /\ pc = "rmtree"
    /\ \E e \in RmtreeErrors, R \in PartialRemovals(target, dirs, files) :
         /\ CatchesWindowsError(e, platform)
         /\ dirs' = dirs \ R
         /\ files' = files \ R
         /\ raised' = e
    /\ attempted' = attempted \cup {target}
    /\ printed' = Append(printed, target)
    /\ UNCHANGED <<initial, platform, argv, start, log, pc, phase, stack,
                   frameVars, i, target, ret>>

\* robust_rmtree, lines 14, 16-17: shutil.rmtree(p) raises after removing
\* part of what is below p, the except clause handles it and the loop tries
\* again.
RmtreeRetry ==
    /\ pc = "rmtree"
    /\ \E e \in RmtreeErrors, R \in PartialRemovals(target, dirs, files) :
         /\ CatchesWindowsError(e, platform)
         /\ dirs' = dirs \ R
         /\ files' = files \ R
         /\ raised' = e
    /\ attempted' = attempted \cup {target}
    /\ UNCHANGED <<initial, platform, argv, start, log, pc, phase, stack,
                   frameVars, i, target, ret, printed>>

\* robust_rmtree, lines 14, 16: shutil.rmtree(p) raises, the except clause
\* does not handle it and the exception ends the program.
RmtreeCrash ==
    /\ pc = "rmtree"
    /\ \E e \in RmtreeErrors, R \in PartialRemovals(target, dirs, files) :
         /\ ~CatchesWindowsError(e, platform)
         /\ dirs' = dirs \ R
         /\ files' = files \ R
         /\ raised' = e
    /\ attempted' = attempted \cup {target}
    /\ pc' = "crashed"
    /\ UNCHANGED <<initial, platform, argv, start, log, phase, stack,
                   frameVars, i, target, ret, printed>>

\* Lines 27-31, one iteration: a file whose lowercased extension is in
\* `extensions`, or that has no extension and whose name is in `extensions`,
\* is printed; os.unlink follows.
Files2Iter ==
    /\ pc = "files2"
    /\ i <= Len(filenames)
    /\ IF FileMatches(filenames[i], argv.all)
       THEN /\ printed' = Append(printed, join(dirpath, filenames[i]))
            /\ target' = join(dirpath, filenames[i])
            /\ pc' = "unlink"
            /\ i' = i
       ELSE /\ i' = i + 1
            /\ UNCHANGED <<printed, target, pc>>
    /\ UNCHANGED <<fsVars, initial, platform, argv, start, log, phase, stack,
                   frameVars, ret, attempted, raised>>

\* Line 32: os.unlink(p) removes the file.
UnlinkOk ==
    /\ pc = "unlink"
    /\ target \in files
    /\ files' = files \ {target}
    /\ attempted' = attempted \cup {target}
    /\ raised' = "none"
    /\ pc' = "files2"
    /\ i' = i + 1
    /\ target' = <<>>
    /\ UNCHANGED <<dirs, initial, platform, argv, start, log, phase, stack,
                   frameVars, ret, printed>>

\* Line 32: os.unlink(p) raises; nothing handles it and the program ends.
UnlinkCrash ==
    /\ pc = "unlink"
    /\ \E e \in UnlinkErrors : raised' = e
    /\ attempted' = attempted \cup {target}
    /\ pc' = "crashed"
    /\ UNCHANGED <<fsVars, initial, platform, argv, start, log, phase, stack,
                   frameVars, i, target, ret, printed>>

\* Line 27, the list is exhausted; line 34: with "--all" the loop over
\* dirnames follows, otherwise the body of the second walk ends.
Files2End ==
    /\ pc = "files2"
    /\ i > Len(filenames)
    /\ IF argv.all
       THEN pc' = "dirs2" /\ i' = 1
       ELSE pc' = "resume" /\ i' = i
    /\ UNCHANGED <<fsVars, initial, platform, argv, start, log, phase, stack,
                   frameVars, target, ret, printed, attempted, raised>>

\* Lines 35-39, one iteration: a directory named exactly '.vs' is printed
\* and handed to robust_rmtree.
Dirs2Iter ==
    /\ pc = "dirs2"
    /\ i <= Len(dirnames)
    /\ IF IsDotVs(dirnames[i])
       THEN /\ printed' = Append(printed, join(dirpath, dirnames[i]))
            /\ target' = join(dirpath, dirnames[i])
            /\ ret' = "dirs2"
            /\ pc' = "rmtree"
            /\ i' = i
       ELSE /\ i' = i + 1
            /\ UNCHANGED <<printed, target, ret, pc>>
    /\ UNCHANGED <<fsVars, initial, platform, argv, start, log, phase, stack,
                   frameVars, attempted, raised>>

\* Line 35, the list is exhausted: the body of the second walk ends.
Dirs2End ==
    /\ pc = "dirs2"
    /\ i > Len(dirnames)
    /\ pc' = "resume"
    /\ UNCHANGED <<fsVars, initial, platform, argv, start, log, phase, stack,
                   frameVars, i, target, ret, printed, attempted, raised>>

Next ==
    \/ \E inv \in {Default, All, AllOnInitial} : Invoke(inv)
    \/ WalkDone
    \/ WalkSkip
    \/ WalkYield
    \/ WalkResume
    \/ Dirs1Iter
    \/ Dirs1End
    \/ RmtreeOk
    \/ RmtreeRetry
    \/ RmtreeCrash
    \/ Files2Iter
    \/ UnlinkOk
    \/ UnlinkCrash
    \/ Files2End
    \/ Dirs2Iter
    \/ Dirs2End

Spec == Init /\ [][Next]_vars

\* One invocation of the program, in either mode, on the initial tree.
NextOnce ==
    \/ \E inv \in {Default, All} : log = <<>> /\ Invoke(inv)
    \/ WalkDone
    \/ WalkSkip
    \/ WalkYield
    \/ WalkResume
    \/ Dirs1Iter
    \/ Dirs1End
    \/ RmtreeOk
    \/ RmtreeRetry
    \/ RmtreeCrash
    \/ Files2Iter
    \/ UnlinkOk
    \/ UnlinkCrash
    \/ Files2End
    \/ Dirs2Iter
    \/ Dirs2End

\* The interpreter runs the program on once it is started (every step but
\* the failures of the deletion calls, which the platform decides), and a
\* removal that can succeed does succeed at some attempt.
Advance ==
    \/ WalkDone \/ WalkSkip \/ WalkYield \/ WalkResume
    \/ Dirs1Iter \/ Dirs1End \/ Files2Iter \/ UnlinkOk \/ Files2End
    \/ Dirs2Iter \/ Dirs2End

InitOnce == InitOn(MaxRetryNodes)

FairSpec == InitOnce /\ [][NextOnce]_vars /\ WF_vars(Advance) /\ WF_vars(RmtreeOk)

\* ------------------------------------------------------------ claims
Range(s) == { s[k] : k \in 1..Len(s) }

\* The target sets as the specification lists them: '_output', 'ipch' and,
\* with "--all", '.vs'; '.suo' and '.user'; '.ipch', '.pch', '.sdf',
\* '.vspx', '.aps', '.vsp', '.psess'.
SpecDirTargets(all) ==
    { <<95,111,117,116,112,117,116>>, <<105,112,99,104>> }
    \cup (IF all THEN { <<46,118,115>> } ELSE {})
SpecExtendedExts == { <<46,115,117,111>>, <<46,117,115,101,114>> }
SpecExtTargets(all) ==
    { <<46,105,112,99,104>>, <<46,112,99,104>>, <<46,115,100,102>>,
      <<46,118,115,112,120>>, <<46,97,112,115>>, <<46,118,115,112>>,
      <<46,112,115,101,115,115>> }
    \cup (IF all THEN SpecExtendedExts ELSE {})

Ext(fn) == splitext(fn)[2]
Base(fn) == splitext(fn)[1]

\* A directory name in the target set, compared case-insensitively.
SpecDirMatch(dn, all) == lower(dn) \in SpecDirTargets(all)
\* A file name whose extension is, case-insensitively, in the target set, or
\* that has no extension and is, as written, in the target set.
SpecFileMatch(fn, all) ==
    \/ lower(Ext(fn)) \in SpecExtTargets(all)
    \/ (Ext(fn) = <<>> /\ Base(fn) \in SpecExtTargets(all))
\* The same with the name without extension compared case-insensitively.
SpecFileMatchAnyCase(fn, all) ==
    \/ lower(Ext(fn)) \in SpecExtTargets(all)
    \/ (Ext(fn) = <<>> /\ lower(Base(fn)) \in SpecExtTargets(all))

\* p lies inside a directory whose name matches.
BelowMatch(p, all) ==
    \E k \in 1..(Len(p) - 1) : SpecDirMatch(p[k], all)

\* Whether entry p of tree t has a name that does not match.
IsNonMatching(p, t, all) ==
    \/ p \in t.d /\ p # Root /\ ~SpecDirMatch(Basename(p), all)
    \/ p \in t.f /\ ~SpecFileMatch(Basename(p), all)

\* The entries of the run's initial tree that are no longer there.
Removed == (start.d \ dirs) \cup (start.f \ files)

\* The entries of tree t whose own name does not match.
NonMatching(t, all) ==
    { p \in t.d \ {Root} : ~SpecDirMatch(Basename(p), all) }
    \cup { p \in t.f : ~SpecFileMatch(Basename(p), all) }

RunEnded == pc = "idle" /\ Len(log) >= 1
LastRun == log[Len(log)]

\* ---- C1
\* C1 as stated: in every state of a run of either mode, every file and
\* directory of the run's initial tree whose own name does not match is
\* still there, also when it lies inside a directory whose name matches.
C1_UntouchedEvenBelowMatch ==
    \A p \in Removed : ~IsNonMatching(p, start, argv.all)

\* C1 as amended: every file and directory of the run's initial tree whose
\* own name does not match and that does not lie inside a directory whose
\* name matches is still there, in every state of the run.
C1_NonMatchingKept ==
    \A p \in Removed :
        IsNonMatching(p, start, argv.all) => BelowMatch(p, argv.all)

\* A run has ended normally and removed something, and a file and a
\* directory that do not match are left.
C1_Witness ==
    /\ RunEnded
    /\ LastRun.to # LastRun.from
    /\ NonMatching(LastRun.from, LastRun.argv.all) \cap LastRun.to.f # {}
    /\ NonMatching(LastRun.from, LastRun.argv.all) \cap LastRun.to.d # {}

\* ---- C2
IsExtendedOnly(p, t) ==
    \/ p \in t.d /\ p # Root /\ Basename(p) = <<46,118,115>>
    \/ p \in t.f /\ lower(Ext(Basename(p))) \in SpecExtendedExts
ExtendedOnly(t) == { p \in t.d \cup t.f : IsExtendedOnly(p, t) }

\* C2 as stated: without "--all", every directory named '.vs' and every
\* file with extension '.suo' or '.user' of the run's initial tree is still
\* there, wherever it lies, also below a directory named '_output' or 'ipch'.
C2_ExtendedKeptAnywhere ==
    ~argv.all => \A p \in Removed : ~IsExtendedOnly(p, start)

\* C2 as amended: without "--all", every directory named '.vs' and every
\* file with extension '.suo' or '.user' of the run's initial tree that does
\* not lie inside a directory named (in any letter case) '_output' or 'ipch'
\* is still there, in every state of the run.
C2_ExtendedKept ==
    ~argv.all =>
        \A p \in Removed : IsExtendedOnly(p, start) => BelowMatch(p, FALSE)

\* A default-mode run has ended normally and removed something, and a '.vs'
\* directory and a '.suo' file are left.
C2_Witness ==
    /\ RunEnded
    /\ ~LastRun.argv.all
    /\ LastRun.to # LastRun.from
    /\ ExtendedOnly(LastRun.from) \cap LastRun.to.d # {}
    /\ ExtendedOnly(LastRun.from) \cap LastRun.to.f # {}

\* ---- C3
\* C3: when a run has ended normally, no directory whose lowercased name is
\* in the active directory target set is left anywhere in the tree.
C3_NoTargetDirLeft ==
    RunEnded => \A k \in 1..Len(log) :
        \A p \in log[k].to.d \ {Root} : ~SpecDirMatch(Basename(p), log[k].argv.all)

\* A run has ended normally on a tree that had, below the top level, a
\* directory whose name matches only when lowercased.
C3_Witness ==
    /\ RunEnded
    /\ \E p \in LastRun.from.d :
         /\ Len(p) >= 2
         /\ SpecDirMatch(Basename(p), LastRun.argv.all)
         /\ Basename(p) \notin SpecDirTargets(LastRun.argv.all)
         /\ ~BelowMatch(p, LastRun.argv.all)

\* ---- C4
\* C4 as stated: when a run has ended normally, no file is left whose
\* extension is in the active target set or that has no extension and whose
\* name is in the target set, whatever the letter case of the name.
C4_NoTargetFileLeft ==
    \A k \in 1..Len(log) :
        \A p \in log[k].to.f : ~SpecFileMatchAnyCase(Basename(p), log[k].argv.all)

\* ---- C5
\* C5: after a normal --all run no directory named '_output', 'ipch' or
\* '.vs' and no file with one of the nine extensions is left; and what a
\* default-mode run removes from a tree, an --all run on the same tree
\* removes as well.
C5_AllRemovesBoth ==
    RunEnded =>
    /\ \A k \in 1..Len(log) :
         log[k].argv.all =>
           /\ \A p \in log[k].to.d \ {Root} : lower(Basename(p)) \notin SpecDirTargets(TRUE)
           /\ \A p \in log[k].to.f : lower(Ext(Basename(p))) \notin SpecExtTargets(TRUE)
    /\ \A k, j \in 1..Len(log) :
         (~log[k].argv.all /\ log[j].argv.all /\ log[j].from = log[k].from) =>
           /\ log[j].to.d \subseteq log[k].to.d
           /\ log[j].to.f \subseteq log[k].to.f

\* A default-mode run and an --all run on the same tree have both ended
\* normally; the first removed something and the second removed more.
C5_Witness ==
    \E k, j \in 1..Len(log) :
        /\ ~log[k].argv.all /\ log[j].argv.all
        /\ log[j].from = log[k].from
        /\ log[k].to # log[k].from
        /\ log[j].to # log[k].to

\* ---- C6
Terminated == pc \in {"idle", "crashed"}
InRetryLoop == pc = "rmtree"

\* C6: robust_rmtree tries again after every failure its except clause
\* handles and returns only after an attempt that succeeded.  When every
\* removal that can succeed does succeed at some attempt, a program inside
\* robust_rmtree terminates, and a run that ends normally has left none of
\* the directories it handed to robust_rmtree; an attempt whose failure is
\* handled leaves the program in the loop on the same directory, with
\* nothing more printed and its walk where it was.
C6_RetryUntilRemoved ==
    /\ InRetryLoop ~> Terminated
    /\ [](RunEnded => attempted \cap (dirs \cup files) = {})
    /\ [][(pc = "rmtree" /\ pc' # "rmtree" /\ pc' # "crashed")
            => (raised' = "none" /\ target \notin dirs')]_vars
    /\ [][(pc = "rmtree" /\ raised' # "none" /\ pc' # "crashed")
            => (pc' = "rmtree" /\ target' = target /\ printed' = printed
                /\ i' = i /\ stack' = stack /\ ret' = ret)]_vars

\* The program is inside robust_rmtree after an attempt that failed, was
\* handled and had removed part of what is below the directory.
C6_Witness ==
    /\ pc = "rmtree"
    /\ raised \in OSErrorClass
    /\ target \in dirs
    /\ Subtree(target, start.d, start.f) # Subtree(target, dirs, files)

\* ---- C7
\* C7 as stated: after a failure of a deletion other than the platform's
\* removal error inside robust_rmtree (so after every failure of os.unlink
\* and after a permission error of shutil.rmtree) the program has
\* terminated.
C7_OnlyOneFailureTolerated ==
    (raised # "none" /\ ~(pc = "rmtree" /\ raised = "OSError")) => pc = "crashed"

\* C7 as amended: a failure of a deletion terminates the program unless it
\* is raised by shutil.rmtree inside robust_rmtree on Windows and is an
\* OSError, permission errors included; the step that terminates the
\* program prints nothing and restores nothing, and a terminated program
\* prints and deletes nothing more.
C7_UnhandledFailureTerminates ==
    /\ []((raised # "none" /\ ~(/\ pc = "rmtree"
                                 /\ platform = "win32"
                                 /\ raised \in {"OSError", "PermissionError"}))
            => pc = "crashed")
    /\ [][pc' = "crashed" =>
            (dirs' \subseteq dirs /\ files' \subseteq files /\ printed' = printed)]_vars
    /\ [][pc = "crashed" => UNCHANGED <<dirs, files, printed>>]_vars

\* os.unlink has failed after the run had printed and removed something
\* else: the program is terminated, the earlier removal stands.
C7_Witness ==
    /\ pc = "crashed"
    /\ raised # "none"
    /\ target \in files
    /\ Len(printed) >= 2
    /\ Tree # start

\* ---- C8
\* C8: every path whose deletion has been attempted was printed before, no
\* path is printed twice in a run, and no printed path lies inside another
\* printed path.
C8_PrintedOnceBeforeDeletion ==
    /\ attempted \subseteq Range(printed)
    /\ \A a, b \in 1..Len(printed) : a # b => printed[a] # printed[b]
    /\ \A a, b \in 1..Len(printed) : ~IsProperPrefix(printed[a], printed[b])

\* robust_rmtree is retrying its directory, an earlier path having been
\* printed and deleted in the same run.
C8_Witness ==
    /\ pc = "rmtree"
    /\ raised # "none"
    /\ target \in attempted
    /\ Len(printed) >= 2
    /\ Cardinality(attempted) >= 2

\* ---- C9
HasDotVs(ds) == \E p \in ds \ {Root} : Basename(p) = <<46,118,115>>

\* C9 as stated, in the form to be settled: once the first walk of an
\* --all run on a tree holding a directory named '.vs' has finished, a
\* directory named '.vs' is left for the second pass to remove.
C9_DotVsLeftForSecondPass ==
    (argv.all /\ phase = 2 /\ pc = "walk" /\ stack = <<Root>> /\ HasDotVs(start.d))
        => HasDotVs(dirs)

\* C9 as amended: in --all mode no directory named '.vs' is left once the
\* first walk has finished, and robust_rmtree is never called from the
\* second pass: every '.vs' directory is removed by the first walk.
C9_SecondPassRemovesNothing ==
    /\ ret # "dirs2"
    /\ (argv.all /\ phase = 2) => ~HasDotVs(dirs)

\* The second pass of an --all run is looking at the directories of a
\* directory, in a run whose initial tree held a directory named '.vs'.
C9_Witness ==
    /\ argv.all
    /\ pc = "dirs2"
    /\ i <= Len(dirnames)
    /\ HasDotVs(start.d)

\* ---- C10
\* C10: a run in the same mode on the tree a normally ended run has left
\* prints nothing and leaves the tree as it is; and an --all run after a
\* default-mode run leaves the tree a single --all run on the initial tree
\* leaves.
C10_Idempotent ==
    RunEnded =>
    /\ \A k \in 2..Len(log) :
         (~log[k].argv.restore /\ log[k].argv.all = log[k-1].argv.all) =>
           /\ log[k].from = log[k-1].to
           /\ log[k].to = log[k].from
           /\ log[k].out = <<>>
    /\ \A k \in 2..Len(log), j \in 1..Len(log) :
         (/\ ~log[k-1].argv.all /\ log[k].argv.all /\ ~log[k].argv.restore
          /\ log[j].argv.all /\ log[j].from = log[k-1].from) =>
           log[k].to = log[j].to

\* Two runs in the same mode have ended normally, the first of which
\* removed a directory and a file.
C10_Witness ==
    /\ RunEnded
    /\ Len(log) = 2
    /\ log[2].argv.all = log[1].argv.all
    /\ log[1].to.d # log[1].from.d
    /\ log[1].to.f \ UNION { Subtree(q, log[1].from.d, log[1].from.f) :
                               q \in log[1].from.d \ log[1].to.d }
         # log[1].from.f \ UNION { Subtree(q, log[1].from.d, log[1].from.f) :
                               q \in log[1].from.d \ log[1].to.d }

====
